---- MODULE Spec2Model ----
(***************************************************************************)
(* A model of src/src/time.ts: the UpdateableTimeRegistry (a scheduler     *)
(* whose clock moves only through update(delta)) and the primitives built  *)
(* on it: Interval, Delay and Until / While.                               *)
(*                                                                         *)
(* The state of the whole program is carried in one record (see State) so  *)
(* that a method is an operator from state to state and a callback that    *)
(* runs inside update() can call the methods of the registry again.       *)
(* update() itself is a sequence of steps, one per entry its two for-of    *)
(* loops visit, because the callbacks it invokes run in between and may    *)
(* add and delete entries of the Map being iterated.                       *)
(***************************************************************************)
EXTENDS Integers, Sequences, FiniteSets, TLC

VARIABLES
    intervals,  \* UpdateableTimeRegistry._intervals, in Map (insertion) order
    timeouts,   \* UpdateableTimeRegistry._timeouts, in Map (insertion) order
    currentId,  \* UpdateableTimeRegistry._currentId
    lastTime,   \* UpdateableTimeRegistry._lastTime
    pass,       \* where a running update() is: phase, iterator index, currentTime
    interval,   \* the fields of the Interval object
    delay,      \* the fields of the Delay object
    promises,   \* the promises the Delay has created, oldest first
    untils,     \* the fields of the two Until objects (until and while)
    cond,       \* what the user's predicate p() returns at present
    hist        \* history variables: what the claims observe, never read by the code

vars == <<intervals, timeouts, currentId, lastTime, pass, interval, delay,
          promises, untils, cond, hist>>

-----------------------------------------------------------------------------
(* Bounds of the model *)

\* Number.MAX_SAFE_INTEGER is 2^53 - 1; the model keeps the shape of the id
\* space (MIN = -MAX, ids MIN .. MAX - 1, 0 in the middle) at a small size.
MaxSafe == 3
\* update() is not called once the clock would pass MaxTime.
MaxTime == 2
\* The largest delta, period and duration the callers pass.
MaxDelta == 2
MaxPeriod == 2
\* setInterval / setTimeout are not called once this many ids were generated
\* since Init.
MaxSchedules == 2
\* Delay.start() is not called once this many ids were generated since Init.
MaxStarts == 3
\* The same for the caller of SpecDelayLive.
MaxCycles == 2

MIN_SAFE_INTEGER == 0 - MaxSafe
MAX_SAFE_INTEGER == MaxSafe

\* The handles _generateId can return.
Ids == MIN_SAFE_INTEGER .. (MAX_SAFE_INTEGER - 1)
\* How many handles are generated before the counter is back where it was.
IdRange == MAX_SAFE_INTEGER - MIN_SAFE_INTEGER

Deltas == 0 .. MaxDelta
\* update(delta) takes any number: a negative delta takes the clock back.
AllDeltas == {0 - 1} \cup Deltas
\* What the user's own handlers are scheduled with: a negative value, 0, 1.
RawPeriods == {-1, 0, 1}
\* -1 stands for every negative period, delay or duration (clamped to 0).
Periods == -1 .. MaxPeriod

-----------------------------------------------------------------------------
(* The state as one record, and back *)

State ==
    [intervals |-> intervals, timeouts |-> timeouts, currentId |-> currentId,
     lastTime |-> lastTime, pass |-> pass, interval |-> interval,
     delay |-> delay, promises |-> promises, untils |-> untils,
     cond |-> cond, hist |-> hist]

Become(S) ==
    /\ intervals' = S.intervals
    /\ timeouts' = S.timeouts
    /\ currentId' = S.currentId
    /\ lastTime' = S.lastTime
    /\ pass' = S.pass
    /\ interval' = S.interval
    /\ delay' = S.delay
    /\ promises' = S.promises
    /\ untils' = S.untils
    /\ cond' = S.cond
    /\ hist' = S.hist

-----------------------------------------------------------------------------
(* Map: a sequence of entries in insertion order, keyed by the field id *)

IndexOf(m, id) ==
    IF \E j \in 1..Len(m) : m[j].id = id
    THEN CHOOSE j \in 1..Len(m) : m[j].id = id
    ELSE 0

Has(m, id) == IndexOf(m, id) > 0

\* (A set that puts a new key first.)
MapSet_front(m, e) ==
    IF Has(m, e.id) THEN [m EXCEPT ![IndexOf(m, e.id)] = e] ELSE <<e>> \o m

\* Map.prototype.set: an existing key keeps its place, a new key goes last.
MapSet(m, e) ==
    IF Has(m, e.id) THEN [m EXCEPT ![IndexOf(m, e.id)] = e] ELSE Append(m, e)

\* (A delete that takes the oldest entry when the key is unknown.)
MapDelete_or_first(m, id) ==
    IF Has(m, id)
    THEN [j \in 1..(Len(m) - 1) |-> IF j < IndexOf(m, id) THEN m[j] ELSE m[j + 1]]
    ELSE IF m = <<>> THEN m ELSE Tail(m)

\* Map.prototype.delete
MapDelete(m, id) ==
    [j \in 1..(Len(m) - (IF Has(m, id) THEN 1 ELSE 0)) |->
        IF j < IndexOf(m, id) \/ ~Has(m, id) THEN m[j] ELSE m[j + 1]]

\* A live Map iterator holds the index of the next entry to visit.  Deleting
\* an entry it has passed moves every later entry one place down.
CursorAfterDelete(m, id, cursor) ==
    IF Has(m, id) /\ IndexOf(m, id) <= cursor THEN cursor - 1 ELSE cursor

-----------------------------------------------------------------------------
(* UpdateableTimeRegistry *)

\* Math.max(x, 0) behind "x ? ... : 0"
Clamp(x) == IF x > 0 THEN x ELSE 0

now(S) == S.lastTime

\* (_generateId without the increment.)
generateId_stuck(c) == c

\* _generateId: the value _currentId takes after the id c was handed out.
generateId(c) ==
    IF c + 1 = MAX_SAFE_INTEGER THEN MIN_SAFE_INTEGER ELSE c + 1

\* What a schedule call leaves in the history: the serial number of the new
\* entry, and whether it took the place of a pending entry of its Map.
Scheduled(S, m) ==
    [S.hist EXCEPT
        !.gen = @ + 1,
        !.took = IF Has(m, S.currentId) THEN @ \cup {S.hist.gen} ELSE @,
        !.lastSet = [overwrote |-> Has(m, S.currentId),
                     age |-> IF Has(m, S.currentId)
                             THEN S.hist.gen - m[IndexOf(m, S.currentId)].seq
                             ELSE 0]]

\* setInterval(handler, interval): the id it returns is S.currentId.
setInterval(S, h, ivl) ==
    [S EXCEPT
        !.currentId = generateId(S.currentId),
        !.intervals = MapSet(S.intervals,
            [id |-> S.currentId, h |-> h, interval |-> Clamp(ivl),
             allowed |-> S.lastTime + Clamp(ivl), seq |-> S.hist.gen]),
        !.hist = Scheduled(S, S.intervals)]

\* setTimeout(handler, delay): the id it returns is S.currentId.
setTimeout(S, h, dly) ==
    [S EXCEPT
        !.currentId = generateId(S.currentId),
        !.timeouts = MapSet(S.timeouts,
            [id |-> S.currentId, h |-> h, delay |-> Clamp(dly),
             allowed |-> S.lastTime + Clamp(dly), seq |-> S.hist.gen]),
        !.hist = Scheduled(S, S.timeouts)]

\* Whether the running update() has yet to visit the entry at index j of the
\* Map of this kind ("intervals" or "timeouts").
Unvisited(S, kind, j) ==
    CASE S.pass.phase = "idle" -> FALSE
      [] S.pass.phase = kind -> j > S.pass.cursor
      [] OTHER -> kind = "timeouts"

\* What a clear call leaves in the history: the serial numbers of the entries
\* it takes out of m, and (until the next step) of those which the running
\* update() would have fired had they stayed.
Cleared(S, m, kind, id) ==
    LET gone == {j \in 1..Len(m) : m[j].id = id}
    IN  [S.hist EXCEPT
            !.cancelled = @ \cup {m[j].seq : j \in gone},
            !.missed = (gone = {}),
            !.dueCancelled =
                {m[j].seq : j \in {k \in gone :
                    /\ Unvisited(S, kind, k)
                    /\ S.pass.currentTime >= m[k].allowed}}]

\* (clearInterval without the delete.)
clearInterval_keeps(S, id) ==
    [S EXCEPT !.hist = Cleared(S, S.intervals, "intervals", id)]

clearInterval(S, id) ==
    [S EXCEPT
        !.intervals = MapDelete(S.intervals, id),
        !.pass.cursor =
            IF S.pass.phase = "intervals"
            THEN CursorAfterDelete(S.intervals, id, @) ELSE @,
        !.hist = Cleared(S, S.intervals, "intervals", id)]

clearTimeout(S, id) ==
    [S EXCEPT
        !.timeouts = MapDelete(S.timeouts, id),
        !.pass.cursor =
            IF S.pass.phase = "timeouts"
            THEN CursorAfterDelete(S.timeouts, id, @) ELSE @,
        !.hist = Cleared(S, S.timeouts, "timeouts", id)]

-----------------------------------------------------------------------------
(* The callbacks the primitives and the user register, as data *)

TickHandler == [kind |-> "tick", who |-> "interval"]
DelayHandler == [kind |-> "delay", who |-> "delay"]
PollHandler(who) == [kind |-> "poll", who |-> who]
RawHandler == [kind |-> "raw", who |-> "user"]

NoCanceller == [live |-> FALSE, id |-> 0, rejecter |-> 0]

-----------------------------------------------------------------------------
(* Interval *)

Interval_start(S) ==
    IF S.interval.isStarted THEN S
    ELSE LET A == [S EXCEPT !.interval.isStarted = TRUE,
                            !.hist.ivT0 = now(S)]
             B == setInterval(A, TickHandler, A.interval.interval)
         IN  [B EXCEPT !.interval.canceller =
                  [live |-> TRUE, id |-> A.currentId, rejecter |-> 0]]

\* The thunk start() stores in _canceller.
Interval_canceller(S) ==
    IF S.interval.canceller.live
    THEN [clearInterval(S, S.interval.canceller.id)
              EXCEPT !.interval.canceller = NoCanceller]
    ELSE S

\* (cancel() that forgets to call the canceller.)
Interval_cancel_flag_only(S) ==
    [S EXCEPT !.interval.isStarted = FALSE, !.hist.ivClean = FALSE]

Interval_cancel(S) ==
    [Interval_canceller(S) EXCEPT !.interval.isStarted = FALSE,
                                  !.hist.ivClean = FALSE]

Interval_reset(S, ivl) ==
    [Interval_cancel(S) EXCEPT !.interval.interval = Clamp(ivl)]

Interval_new(S, ivl, autoStart) ==
    LET A == [S EXCEPT !.interval = [interval |-> Clamp(ivl),
                                     isStarted |-> FALSE,
                                     canceller |-> NoCanceller]]
    IN  IF autoStart THEN Interval_start(A) ELSE A

-----------------------------------------------------------------------------
(* Delay *)

\* A promise: its state, and for the claims the time it is due and the timer
\* that is to fulfil it (both set by the start() that first scheduled a timer
\* for it), the time it was settled, the timer that fulfilled it, and the
\* state the promise before it was in when this one was created.
NewPromise ==
    [state |-> "pending", due |-> -1, at |-> -1, item |-> -1, by |-> -1,
     after |-> "none"]

\* Promise resolve / reject: only a pending promise changes state.
Settle(pr, state, time) ==
    IF pr.state = "pending" THEN [pr EXCEPT !.state = state, !.at = time] ELSE pr

\* The time a callback runs at: the time the running update() advances to.
TimeOfCall(S) == IF S.pass.phase = "idle" THEN S.lastTime ELSE S.pass.currentTime

Delay_createPromise(S) ==
    [S EXCEPT !.promises =
                  Append(@, [NewPromise EXCEPT !.after =
                      IF S.promises = <<>> THEN "none"
                      ELSE S.promises[Len(S.promises)].state]),
              !.delay.promise = Len(S.promises) + 1]

\* _createCanceler(timeoutId, rejecter): "!timeoutId" holds of the id 0.
Delay_createCanceler(timeoutId, rejecter) ==
    IF timeoutId = 0 \/ rejecter = 0
    THEN NoCanceller
    ELSE [live |-> TRUE, id |-> timeoutId, rejecter |-> rejecter]

Delay_start(S) ==
    IF S.delay.isStarted THEN S
    ELSE LET A == IF ~S.delay.isInitialized
                  THEN [Delay_createPromise(S) EXCEPT !.delay.isInitialized = TRUE]
                  ELSE S
             B == setTimeout(A, DelayHandler, A.delay.duration)
             p == A.delay.promise
         IN  [B EXCEPT
                 !.delay.canceller = Delay_createCanceler(A.currentId, p),
                 !.promises[p].due =
                     IF @ = -1 THEN now(A) + A.delay.duration ELSE @,
                 !.promises[p].item = IF @ = -1 THEN A.hist.gen ELSE @,
                 !.hist.dlRunning = TRUE,
                 !.hist.dlHandle = A.currentId,
                 !.hist.dlCancelled = FALSE]

\* The callback start() hands to setTimeout.
Delay_timeout(S) ==
    [S EXCEPT !.delay.isStarted = FALSE,
              !.delay.isInitialized = FALSE,
              !.delay.canceller = NoCanceller,
              !.promises[S.delay.promise] =
                  [Settle(@, "fulfilled", TimeOfCall(S)) EXCEPT !.by =
                      IF S.promises[S.delay.promise].state = "pending"
                      THEN CHOOSE q \in {f.seq : f \in S.hist.firedNow} : TRUE
                      ELSE @],
              !.hist.dlRunning = FALSE]

\* The thunk _createCanceler returns, invoked.
Delay_canceller(S) ==
    LET c == S.delay.canceller
        A == IF S.delay.rejectOnCancel
             THEN [S EXCEPT !.promises[c.rejecter] =
                                Settle(@, "rejected", TimeOfCall(S))]
             ELSE S
        B == clearTimeout(A, c.id)
    IN  [B EXCEPT !.delay.canceller = NoCanceller,
                  !.delay.isStarted = FALSE,
                  !.delay.isInitialized = FALSE]

Delay_cancel(S) ==
    LET A == IF S.delay.canceller.live THEN Delay_canceller(S) ELSE S
    IN  [A EXCEPT
            !.hist.dlRunning = FALSE,
            !.hist.dlCancelled = @ \/ S.hist.dlRunning,
            !.hist.dlCancelProms =
                IF S.hist.dlRunning THEN @ \cup {S.delay.promise} ELSE @]

Delay_reset(S, duration) ==
    [Delay_cancel(S) EXCEPT !.delay.duration = Clamp(duration)]

Delay_new(S, duration, rejectOnCancel, autoStart) ==
    LET A == [S EXCEPT !.delay = [duration |-> Clamp(duration),
                                  rejectOnCancel |-> rejectOnCancel,
                                  isStarted |-> FALSE,
                                  isInitialized |-> FALSE,
                                  promise |-> 0,
                                  canceller |-> NoCanceller]]
        B == [Delay_createPromise(A) EXCEPT
                 !.delay.canceller = NoCanceller,
                 !.delay.isInitialized = TRUE]
    IN  IF autoStart THEN Delay_start(B) ELSE B

-----------------------------------------------------------------------------
(* Until and While *)

\* The user's predicate p of Time.while(p), and the predicate () => !p() the
\* user hands to Time.until.
UserP(S) == S.cond
UserNotP(S) == ~UserP(S)

\* (The condition handed on as it is.)
While_condition_plain(S) == UserP(S)

\* TimeController.while: the condition it hands to Until is () => !condition().
While_condition(S) == ~UserP(S)

\* this._condition(), for the Until made by Time.until ("until") and the one
\* made by Time.while ("while").  A cleared _condition is not callable.
Until_condition(S, who) ==
    CASE S.untils[who].condition = "set" /\ who = "until" -> UserNotP(S)
      [] S.untils[who].condition = "set" /\ who = "while" -> While_condition(S)

\* What start() leaves in the history: the time of the start, whether the
\* predicate has returned true from the start on, and what update() passes
\* have ended since (0: none, 1: only passes to a time before that of the
\* start, 2: a pass to the time of the start or later).
Started(S, who) ==
    [S.hist.started EXCEPT ![who] =
        [t0 |-> now(S), stable |-> Until_condition(S, who), passed |-> 0]]

\* (start() that polls with a period of 1.)
Until_start_period_one(S, who) ==
    IF S.untils[who].isStarted THEN S
    ELSE LET A == [S EXCEPT !.untils[who].isStarted = TRUE,
                            !.untils[who].promise = "pending",
                            !.untils[who].intervalId = S.currentId,
                            !.hist.started = Started(S, who)]
         IN  setInterval(A, PollHandler(who), 1)

Until_start(S, who) ==
    IF S.untils[who].isStarted THEN S
    ELSE LET A == [S EXCEPT !.untils[who].isStarted = TRUE,
                            !.untils[who].promise = "pending",
                            !.untils[who].intervalId = S.currentId,
                            !.hist.started = Started(S, who)]
         IN  setInterval(A, PollHandler(who), 0)

\* (A poll that fulfils and leaves its item in the registry.)
Until_poll_keeps_item(S, who) ==
    IF Until_condition(S, who)
    THEN [S EXCEPT !.untils[who].promise = "fulfilled",
                   !.untils[who].condition = "undefined",
                   !.hist.polledTrue = @ \cup {who}]
    ELSE S

\* The callback start() hands to setInterval.
Until_poll(S, who) ==
    IF Until_condition(S, who)
    THEN [clearInterval(S, S.untils[who].intervalId) EXCEPT
             !.untils[who].promise = "fulfilled",
             !.untils[who].condition = "undefined",
             !.hist.polledTrue = @ \cup {who}]
    ELSE S

\* The constructor: _promise starts as Promise.resolve().
Until_new(S, who, autoStart) ==
    LET A == [S EXCEPT !.untils[who] = [isStarted |-> FALSE,
                                        promise |-> "fulfilled",
                                        condition |-> "set",
                                        intervalId |-> 0]]
    IN  IF autoStart THEN Until_start(A, who) ELSE A

-----------------------------------------------------------------------------
(* What user code does inside a callback: one call, or nothing *)

NoOp == [op |-> "none", arg |-> 0]

\* The callers stop scheduling after MaxSchedules calls.
CanSchedule(S) == S.hist.gen - S.hist.gen0 < MaxSchedules

\* The calls a handler registered by the user itself may make.
RawOps(S) ==
    {NoOp}
    \cup {[op |-> "clearInterval", arg |-> S.intervals[j].id] : j \in 1..Len(S.intervals)}
    \cup {[op |-> "clearTimeout", arg |-> S.timeouts[j].id] : j \in 1..Len(S.timeouts)}
    \cup (IF CanSchedule(S)
          THEN {[op |-> o, arg |-> d] : o \in {"setInterval", "setTimeout"}, d \in RawPeriods}
          ELSE {})

\* The calls a listener of Interval.onTick may make.
ListenerOps(S) == {NoOp, [op |-> "cancel", arg |-> 0]}

UserOps(S, h) ==
    CASE h.kind = "raw" -> RawOps(S)
      [] h.kind = "tick" -> ListenerOps(S)
      [] OTHER -> {NoOp}

UserCall(S, op) ==
    CASE op.op = "none" -> S
      [] op.op = "clearInterval" -> clearInterval(S, op.arg)
      [] op.op = "clearTimeout" -> clearTimeout(S, op.arg)
      [] op.op = "setInterval" -> setInterval(S, RawHandler, op.arg)
      [] op.op = "setTimeout" -> setTimeout(S, RawHandler, op.arg)
      [] op.op = "cancel" -> Interval_cancel(S)

\* Counting the ticks stops at TickCap (a zero-period interval ticks on
\* every update, without end).
TickCap == MaxTime + 1

\* Interval's callback: this._onTick.fire(this._registry.now()); the listener
\* receives the value and then runs its own code.
Interval_tick(S, e, op) ==
    UserCall([S EXCEPT
                 !.hist.ticks = IF @ < TickCap THEN @ + 1 ELSE @,
                 !.hist.lastTick = [fired |-> TRUE, value |-> now(S),
                                    due |-> e.allowed]],
             op)

\* handler(...args) of the entry e.
Invoke(S, e, op) ==
    CASE e.h.kind = "tick" -> Interval_tick(S, e, op)
      [] e.h.kind = "delay" -> Delay_timeout(S)
      [] e.h.kind = "poll" -> Until_poll(S, e.h.who)
      [] e.h.kind = "raw" -> UserCall(S, op)

-----------------------------------------------------------------------------
(* update(delta), one step per entry visited *)

Idle == pass.phase = "idle"

\* const currentTime = this._lastTime + delta
update_begin(S, delta) ==
    [S EXCEPT !.pass = [phase |-> "intervals", cursor |-> 0,
                        currentTime |-> S.lastTime + delta],
              !.hist.firedNow = {},
              !.hist.firedPass = <<>>,
              !.hist.passGen = S.hist.gen,
              !.hist.dueCancelled = {},
              !.hist.missed = FALSE,
              !.hist.startedApart =
                  @ \/ (S.untils["until"].isStarted # S.untils["while"].isStarted)]

\* The object e, as the Map m holds it now (it may be gone).
SameEntry(m, e) == {j \in 1..Len(m) : m[j].seq = e.seq}

\* The history of a firing: the entry e of the Map of this kind is due and
\* its handler is about to run.
Fired(S, e, kind) ==
    [S EXCEPT !.hist.firedNow = {[seq |-> e.seq, kind |-> e.h.kind, due |-> e.allowed]},
              !.hist.firedPass = Append(@, [seq |-> e.seq, map |-> kind,
                                            due |-> e.allowed,
                                            d |-> IF kind = "intervals"
                                                  THEN e.interval ELSE e.delay])]

\* (A first loop that catches up: the entry is re-armed one period after its
\* due time and visited again while it is due.)
update_interval_catch_up(S, op) ==
    LET e == S.intervals[S.pass.cursor + 1]
        A == [S EXCEPT !.pass.cursor = @ + 1, !.hist.firedNow = {},
                       !.hist.dueCancelled = {},
              !.hist.missed = FALSE]
    IN  IF S.pass.currentTime >= e.allowed
        THEN LET B == Invoke(Fired(A, e, "intervals"), e, op)
                 again == /\ e.interval > 0
                          /\ S.pass.currentTime >= e.allowed + e.interval
                          /\ SameEntry(B.intervals, e) # {}
             IN  [B EXCEPT !.intervals =
                     [j \in 1..Len(B.intervals) |->
                         IF j \in SameEntry(B.intervals, e)
                         THEN [B.intervals[j] EXCEPT
                                  !.allowed = e.allowed + e.interval]
                         ELSE B.intervals[j]],
                           !.pass.cursor = IF again THEN @ - 1 ELSE @]
        ELSE A

\* One round of the first loop: the iterator moves to the entry, and if the
\* entry is due its handler runs and its allowedExecutionTime is set.
update_interval(S, op) ==
    LET e == S.intervals[S.pass.cursor + 1]
        A == [S EXCEPT !.pass.cursor = @ + 1, !.hist.firedNow = {},
                       !.hist.dueCancelled = {},
              !.hist.missed = FALSE]
    IN  IF S.pass.currentTime >= e.allowed
        THEN LET B == Invoke(Fired(A, e, "intervals"), e, op)
             IN  [B EXCEPT !.intervals =
                     [j \in 1..Len(B.intervals) |->
                         IF j \in SameEntry(B.intervals, e)
                         THEN [B.intervals[j] EXCEPT
                                  !.allowed = S.pass.currentTime + e.interval]
                         ELSE B.intervals[j]]]
        ELSE A

\* (A second loop that takes an entry to be due only after its time.)
update_timeout_strict(S, op) ==
    LET e == S.timeouts[S.pass.cursor + 1]
        A == [S EXCEPT !.pass.cursor = @ + 1, !.hist.firedNow = {},
                       !.hist.dueCancelled = {},
                       !.hist.missed = FALSE]
    IN  IF S.pass.currentTime > e.allowed
        THEN clearTimeout(Invoke(Fired(A, e, "timeouts"), e, op), e.id)
        ELSE A

\* One round of the second loop: handler, then this.clearTimeout(id).
update_timeout(S, op) ==
    LET e == S.timeouts[S.pass.cursor + 1]
        A == [S EXCEPT !.pass.cursor = @ + 1, !.hist.firedNow = {},
                       !.hist.dueCancelled = {},
              !.hist.missed = FALSE]
    IN  IF S.pass.currentTime >= e.allowed
        THEN LET B == Invoke(Fired(A, e, "timeouts"), e, op)
                 C == clearTimeout(B, e.id)
             IN  C
        ELSE A

\* The first loop is over: the second begins.
update_loop2(S) ==
    [S EXCEPT !.pass.phase = "timeouts", !.pass.cursor = 0,
              !.hist.firedNow = {}, !.hist.dueCancelled = {},
              !.hist.missed = FALSE]

\* (this._lastTime = delta)
update_end_delta(S) ==
    [S EXCEPT !.lastTime = S.pass.currentTime - S.lastTime,
              !.pass.phase = "idle", !.pass.cursor = 0,
              !.hist.firedNow = {}, !.hist.firedPass = <<>>,
              !.hist.dueCancelled = {},
              !.hist.missed = FALSE]

\* What the end of a pass leaves in the history of the Untils.
Passed(S) ==
    [who \in DOMAIN S.hist.started |->
        LET h == S.hist.started[who]
        IN  IF h.t0 = -1 THEN h
            ELSE [h EXCEPT !.passed =
                     IF S.pass.currentTime >= h.t0 THEN 2
                     ELSE IF @ = 0 THEN 1 ELSE @]]

\* this._lastTime = currentTime
update_end(S) ==
    [S EXCEPT !.lastTime = S.pass.currentTime,
              !.hist.passGen = 0,
              !.hist.started = Passed(S),
              !.pass.phase = "idle", !.pass.cursor = 0,
              !.hist.firedNow = {}, !.hist.firedPass = <<>>,
              !.hist.dueCancelled = {},
              !.hist.missed = FALSE]

DueOps(S, m) ==
    LET e == m[S.pass.cursor + 1]
    IN  IF S.pass.currentTime >= e.allowed THEN UserOps(S, e.h) ELSE {NoOp}

Update(delta) ==
    /\ Idle
    /\ lastTime + delta <= MaxTime
    /\ lastTime + delta >= 0
    /\ Become(update_begin(State, delta))

UpdateInterval ==
    /\ pass.phase = "intervals"
    /\ pass.cursor < Len(intervals)
    /\ \E op \in DueOps(State, intervals) : Become(update_interval(State, op))

UpdateLoop2 ==
    /\ pass.phase = "intervals"
    /\ pass.cursor >= Len(intervals)
    /\ Become(update_loop2(State))

UpdateTimeout ==
    /\ pass.phase = "timeouts"
    /\ pass.cursor < Len(timeouts)
    /\ \E op \in DueOps(State, timeouts) : Become(update_timeout(State, op))

UpdateEnd ==
    /\ pass.phase = "timeouts"
    /\ pass.cursor >= Len(timeouts)
    /\ Become(update_end(State))

-----------------------------------------------------------------------------
(* The calls made from outside update() *)

Quiet(S) == [S EXCEPT !.hist.firedNow = {}, !.hist.dueCancelled = {},
              !.hist.missed = FALSE]

SetInterval(ivl) ==
    /\ Idle /\ CanSchedule(State)
    /\ Become(Quiet(setInterval(State, RawHandler, ivl)))

SetTimeout(dly) ==
    /\ Idle /\ CanSchedule(State)
    /\ Become(Quiet(setTimeout(State, RawHandler, dly)))

ClearInterval(id) == Idle /\ Become(clearInterval(Quiet(State), id))

ClearTimeout(id) == Idle /\ Become(clearTimeout(Quiet(State), id))

IntervalStart ==
    /\ Idle
    /\ interval.isStarted \/ CanSchedule(State)
    /\ Become(Quiet(Interval_start(State)))

IntervalCancel == Idle /\ Become(Quiet(Interval_cancel(State)))

IntervalReset(ivl) == Idle /\ Become(Quiet(Interval_reset(State, ivl)))

DelayStart ==
    /\ Idle
    /\ hist.gen - hist.gen0 < MaxStarts
    /\ Become(Quiet(Delay_start(State)))

DelayCancel == Idle /\ Become(Quiet(Delay_cancel(State)))

DelayReset(duration) == Idle /\ Become(Quiet(Delay_reset(State, duration)))

UntilStart(who) == Idle /\ Become(Quiet(Until_start(State, who)))

\* The world changes what p() returns.
SetCond(b) ==
    /\ Idle
    /\ Become(Quiet([State EXCEPT
           !.cond = b,
           !.hist.started =
               [who \in DOMAIN @ |->
                   IF untils[who].condition = "set"
                   THEN [@[who] EXCEPT !.stable =
                            @ /\ Until_condition([State EXCEPT !.cond = b], who)]
                   ELSE @[who]]]))

-----------------------------------------------------------------------------
(* Initial states *)

NoUntil == [isStarted |-> FALSE, promise |-> "fulfilled", condition |-> "set",
            intervalId |-> 0]

Hist0 ==
    [gen |-> 0, gen0 |-> 0, cancelled |-> {}, dueCancelled |-> {}, firedNow |-> {},
     firedPass |-> <<>>, missed |-> FALSE, took |-> {}, passGen |-> 0,
     lastSet |-> [overwrote |-> FALSE, age |-> 0],
     ticks |-> 0, lastTick |-> [fired |-> FALSE, value |-> 0, due |-> 0],
     ivT0 |-> 0, ivClean |-> TRUE,
     dlRunning |-> FALSE, dlCancelled |-> FALSE, dlCancelProms |-> {},
     dlHandle |-> 0,
     polledTrue |-> {}, startedApart |-> FALSE,
     started |-> [who \in {"until", "while"} |->
                     [t0 |-> -1, stable |-> FALSE, passed |-> 0]]]

\* new UpdateableTimeRegistry(0), and no primitive yet.
Fresh ==
    [intervals |-> <<>>, timeouts |-> <<>>,
     currentId |-> MIN_SAFE_INTEGER, lastTime |-> 0,
     pass |-> [phase |-> "idle", cursor |-> 0, currentTime |-> 0],
     interval |-> [interval |-> 0, isStarted |-> FALSE, canceller |-> NoCanceller],
     delay |-> [duration |-> 0, rejectOnCancel |-> FALSE, isStarted |-> FALSE,
                isInitialized |-> FALSE, promise |-> 0, canceller |-> NoCanceller],
     promises |-> <<>>,
     untils |-> [w \in {"until", "while"} |-> NoUntil],
     cond |-> FALSE, hist |-> Hist0]

\* A registry that has been in use for long: the first interval it was asked
\* for (id MIN_SAFE_INTEGER) is still pending, every later entry was cleared,
\* and the next id is the last one before the counter wraps.
Aged ==
    [Fresh EXCEPT
        !.intervals = <<[id |-> MIN_SAFE_INTEGER, h |-> RawHandler, interval |-> 1,
                         allowed |-> 1, seq |-> 0]>>,
        !.currentId = MAX_SAFE_INTEGER - 1,
        !.hist.gen = IdRange - 1,
        !.hist.gen0 = IdRange - 1]

Begin(S) ==
    /\ intervals = S.intervals
    /\ timeouts = S.timeouts
    /\ currentId = S.currentId
    /\ lastTime = S.lastTime
    /\ pass = S.pass
    /\ interval = S.interval
    /\ delay = S.delay
    /\ promises = S.promises
    /\ untils = S.untils
    /\ cond = S.cond
    /\ hist = S.hist

\* The registry alone, with handlers the user registers on it directly.
Init == \E S \in {Fresh, Aged} : Begin(S)

\* Time.interval(ivl, autoStart) on a new registry.
InitInterval ==
    \E ivl \in Periods, autoStart \in BOOLEAN :
        Begin(Interval_new(Fresh, ivl, autoStart))

\* Time.delay(duration, rejectOnCancel, autoStart) on a new registry.
InitDelay ==
    \E duration \in Periods, rejectOnCancel \in BOOLEAN, autoStart \in BOOLEAN :
        Begin(Delay_new(Fresh, duration, rejectOnCancel, autoStart))

\* A registry that has handed out handles up to c and holds no entry (every
\* entry has fired or was cleared).
Used(c) ==
    [Fresh EXCEPT !.currentId = c,
                  !.hist.gen = c - MIN_SAFE_INTEGER,
                  !.hist.gen0 = c - MIN_SAFE_INTEGER]

\* Time.delay(duration, rejectOnCancel, autoStart) on a registry in use.
InitDelayUsed ==
    \E c \in Ids, duration \in Periods, rejectOnCancel \in BOOLEAN,
       autoStart \in BOOLEAN :
        Begin(Delay_new(Used(c), duration, rejectOnCancel, autoStart))

\* Time.until(() => !p(), a) and Time.while(p, b) on a new registry.
InitUntil ==
    \E p \in BOOLEAN, a \in BOOLEAN, b \in BOOLEAN :
        Begin(Until_new(Until_new([Fresh EXCEPT !.cond = p], "until", a),
                        "while", b))

-----------------------------------------------------------------------------
(* Specifications *)

Next ==
    \/ \E d \in RawPeriods : SetInterval(d) \/ SetTimeout(d)
    \/ \E id \in Ids : ClearInterval(id) \/ ClearTimeout(id)
    \/ \E delta \in AllDeltas : Update(delta)
    \/ UpdateInterval \/ UpdateLoop2 \/ UpdateTimeout \/ UpdateEnd

Spec == Init /\ [][Next]_vars

NextInterval ==
    \/ IntervalStart
    \/ IntervalCancel
    \/ \E ivl \in Periods : IntervalReset(ivl)
    \/ \E delta \in AllDeltas : Update(delta)
    \/ UpdateInterval \/ UpdateLoop2 \/ UpdateEnd

SpecInterval == InitInterval /\ [][NextInterval]_vars

NextDelay ==
    \/ DelayStart
    \/ DelayCancel
    \/ \E duration \in Periods : DelayReset(duration)
    \/ \E delta \in Deltas : Update(delta)
    \/ UpdateLoop2 \/ UpdateTimeout \/ UpdateEnd

SpecDelay == InitDelay /\ [][NextDelay]_vars

SpecDelayUsed == InitDelayUsed /\ [][NextDelay]_vars

\* A caller that calls start() only on a Delay that is not running, and an
\* update() that runs to its end and keeps being called with positive deltas.
DelayStartOnce ==
    /\ ~hist.dlRunning
    /\ hist.gen - hist.gen0 < MaxCycles
    /\ DelayStart

PositiveUpdate == \E delta \in 1..MaxDelta : Update(delta)

NextDelayLive ==
    \/ DelayStartOnce
    \/ DelayCancel
    \/ \E duration \in Periods : DelayReset(duration)
    \/ \E delta \in Deltas : Update(delta)
    \/ UpdateLoop2 \/ UpdateTimeout \/ UpdateEnd

SpecDelayLive ==
    /\ InitDelay /\ [][NextDelayLive]_vars
    /\ WF_vars(UpdateLoop2) /\ WF_vars(UpdateTimeout) /\ WF_vars(UpdateEnd)
    /\ SF_vars(PositiveUpdate)

NextUntil ==
    \/ \E who \in {"until", "while"} : UntilStart(who)
    \/ \E b \in BOOLEAN : SetCond(b)
    \/ \E delta \in AllDeltas : Update(delta)
    \/ UpdateInterval \/ UpdateLoop2 \/ UpdateEnd

SpecUntil == InitUntil /\ [][NextUntil]_vars


-----------------------------------------------------------------------------
(* The claims *)

\* C1 (SpecInterval): an Interval with period p > 0 that was started and never
\* cancelled or reset has fired exactly k times once the updates since its
\* start total k * p.
C1_ExactlyKTicks ==
    (/\ Idle
     /\ interval.isStarted
     /\ hist.ivClean
     /\ interval.interval > 0
     /\ (lastTime - hist.ivT0) % interval.interval = 0)
    => hist.ticks = (lastTime - hist.ivT0) \div interval.interval

\* C2 (SpecInterval): the value a tick delivers to the listeners of onTick is
\* never earlier than the time at which that tick was due.
C2_TickCarriesItsTime ==
    hist.lastTick.fired => hist.lastTick.value >= hist.lastTick.due

\* C3 (SpecDelay): a deferred result of the Delay is fulfilled no earlier than
\* t0 + max(d, 0), t0 and d being the time and the duration of the start()
\* that began its cycle.  (That it is fulfilled at most once is the promise's
\* own doing: see Settle.)
C3_FulfilledNoEarlierThanDue ==
    \A p \in 1..Len(promises) :
        promises[p].state = "fulfilled" =>
            promises[p].due # -1 /\ promises[p].at >= promises[p].due

\* The one-shot entries of the registry whose callback is the Delay's.
DelayEntries == {j \in 1..Len(timeouts) : timeouts[j].h.kind = "delay"}

\* C4 (SpecDelay): start() on a running Delay schedules nothing, so the Delay
\* never owns more than one pending one-shot entry.
C4_AtMostOnePendingEntry == Cardinality(DelayEntries) <= 1

\* C5 (SpecDelay): cancel() on a running Delay with rejectOnCancel = true
\* rejects the deferred result at once, and from then on (until the Delay is
\* started again) the Delay's callback is not invoked.
C5_CancelRejectsAndSilences ==
    /\ [](delay.rejectOnCancel =>
            \A p \in hist.dlCancelProms : promises[p].state = "rejected")
    /\ [][(delay.rejectOnCancel /\ hist.dlCancelled) =>
            \A f \in hist.firedNow' : f.kind # "delay"]_vars

\* C6 (SpecDelay): with rejectOnCancel = false, the deferred result that was
\* current when a running Delay was cancelled is never settled.
C6_CancelledNeverSettles ==
    ~delay.rejectOnCancel =>
        \A p \in hist.dlCancelProms : promises[p].state = "pending"

\* C7 (SpecUntil): an Until is not fulfilled before a poll in which its
\* predicate returned true, started or not.
C7_NotFulfilledBeforeTruePoll ==
    "until" \notin hist.polledTrue => untils["until"].promise # "fulfilled"

\* Time.until(() => !p()) and Time.while(p) were started between the same two
\* update() calls (or neither was started yet).
SideBySide ==
    /\ ~hist.startedApart
    /\ untils["until"].isStarted = untils["while"].isStarted

C9_CancelledNeverFired ==
    [][{f.seq : f \in hist.firedNow'} \cap hist.cancelled = {}]_vars

\* A callback has cleared an entry that was due in the pass it runs in, and
\* the pass goes on.
C9_Witness ==
    /\ pass.phase # "idle"
    /\ hist.firedNow # {}
    /\ hist.dueCancelled # {}

\* C10 (Spec) as claimed: no schedule call returns the handle of an entry that
\* is pending in the same Map.
C10_HandlesAlwaysUnique == ~hist.lastSet.overwrote

\* C10 (Spec) as amended: a schedule call returns the handle of a pending
\* entry of the same Map only if IdRange handles or more were generated since
\* that entry was scheduled; the counter stays within MIN_SAFE_INTEGER ..
\* MAX_SAFE_INTEGER - 1.
C10_UniqueWithinOneCycle ==
    /\ currentId \in Ids
    /\ hist.lastSet.overwrote => hist.lastSet.age >= IdRange

\* The counter has wrapped to its minimum while entries were pending.
C10_Witness ==
    /\ currentId = MIN_SAFE_INTEGER
    /\ hist.gen > hist.gen0
    /\ ~hist.lastSet.overwrote
    /\ Len(intervals) + Len(timeouts) >= 2

\* C11 (Spec) as claimed: over update(delta), schedule and cancel calls, now()
\* never returns less than it returned before.
C11_NowNeverDecreases == [][lastTime' >= lastTime]_vars

\* C11 (Spec) as amended: now() changes only when an update(delta) returns,
\* and then by delta; it decreases only at the end of an update(delta) with
\* delta < 0.
C11_NowDecreasesOnlyByNegativeDelta ==
    [][\/ lastTime' = lastTime
       \/ /\ pass.phase = "timeouts" /\ pass'.phase = "idle"
          /\ lastTime' = pass.currentTime
          /\ (lastTime' < lastTime => pass.currentTime < lastTime)]_vars

\* The clock has moved forward, and items were scheduled and cancelled.
C11_Witness ==
    /\ Idle
    /\ lastTime > 0
    /\ hist.gen > hist.gen0
    /\ hist.cancelled # {}

\* The firings of the running update() so far, of the Map of this kind.
FiredOf(kind) == {k \in 1..Len(hist.firedPass) : hist.firedPass[k].map = kind}

\* C12 (Spec): one update() call invokes the callback of a repeating item at
\* most once, whatever delta it is called with (for the items that were
\* pending when the call began, and for those scheduled during the call).
C12_OncePerUpdate ==
    \A k, l \in FiredOf("intervals") :
        hist.firedPass[k].seq = hist.firedPass[l].seq => k = l

\* An update() whose delta spans two periods of a repeating item has fired it
\* and is over its first loop.
C12_Witness ==
    /\ pass.phase = "timeouts"
    /\ pass.currentTime - lastTime >= 2
    /\ \E k \in FiredOf("intervals"), j \in 1..Len(intervals) :
          /\ intervals[j].seq = hist.firedPass[k].seq
          /\ intervals[j].interval = 1

\* The state of the program in S, the history left out.
ProgramOf(S) ==
    <<S.intervals, S.timeouts, S.currentId, S.lastTime, S.pass, S.interval,
      S.delay, S.promises, S.untils>>

\* The repeating entries of the registry whose callback is the Interval's.
IntervalEntries == {j \in 1..Len(intervals) : intervals[j].h.kind = "tick"}

\* C13 (SpecInterval): the Interval owns one pending repeating entry when it
\* is running and none when it is not; start() on a running Interval changes
\* nothing, and a second cancel() changes nothing after the first.
C13_OneEntryIffRunning ==
    /\ Cardinality(IntervalEntries) = (IF interval.isStarted THEN 1 ELSE 0)
    /\ interval.isStarted => ProgramOf(Interval_start(State)) = ProgramOf(State)
    /\ ProgramOf(Interval_cancel(Interval_cancel(State)))
           = ProgramOf(Interval_cancel(State))

\* The Interval was started, cancelled and started again, and has ticked.
C13_Witness ==
    /\ Idle
    /\ interval.isStarted
    /\ ~hist.ivClean
    /\ hist.ticks > 0
    /\ lastTime > 0

\* C14 (Spec): clearInterval(h) and clearTimeout(h) with a handle that the
\* Map does not hold (never returned, or cleared before) leave the program
\* state as it is: both Maps with their due times, the clock, the counter of
\* handles, and the iteration of a running update().
C14_UnknownHandleNoOp ==
    \A id \in Ids :
        /\ ~Has(intervals, id) =>
               ProgramOf(clearInterval(State, id)) = ProgramOf(State)
        /\ ~Has(timeouts, id) =>
               ProgramOf(clearTimeout(State, id)) = ProgramOf(State)

\* A clear call has just been made with a handle its Map does not hold, after
\* an earlier clear took an entry out, while other entries were pending.
C14_Witness ==
    /\ hist.missed
    /\ hist.cancelled # {}
    /\ intervals # <<>>
    /\ timeouts # <<>>

\* Within the running update(), no repeating item has fired after a one-shot
\* item.
RepeatingBeforeOneShot ==
    \A k, l \in 1..Len(hist.firedPass) :
        (hist.firedPass[k].map = "timeouts" /\ hist.firedPass[l].map = "intervals")
            => l < k

\* C15 (Spec) as claimed: within one update() the repeating items fire before
\* the one-shot items, and the items of one kind fire in the order in which
\* they were scheduled.
C15_FiredInScheduledOrder ==
    /\ RepeatingBeforeOneShot
    /\ \A k, l \in 1..Len(hist.firedPass) :
          (k < l /\ hist.firedPass[k].map = hist.firedPass[l].map)
              => hist.firedPass[k].seq < hist.firedPass[l].seq

\* C15 (Spec) as amended: the same, but for an item that was scheduled under
\* the handle of a pending item: it fires at the place of the item it
\* replaced, before items scheduled earlier than itself.
C15_FiredInMapOrder ==
    /\ RepeatingBeforeOneShot
    /\ \A k, l \in 1..Len(hist.firedPass) :
          (k < l /\ hist.firedPass[k].map = hist.firedPass[l].map)
              => \/ hist.firedPass[k].seq < hist.firedPass[l].seq
                 \/ hist.firedPass[k].seq \in hist.took

\* Two repeating items have fired, the one scheduled first although it was
\* due later, and a one-shot item has fired after them.
C15_Witness ==
    \E k, l, n \in 1..Len(hist.firedPass) :
        /\ k < l /\ l < n
        /\ hist.firedPass[k].map = "intervals"
        /\ hist.firedPass[l].map = "intervals"
        /\ hist.firedPass[n].map = "timeouts"
        /\ hist.firedPass[k].seq < hist.firedPass[l].seq
        /\ hist.firedPass[k].due > hist.firedPass[l].due

\* C16 (Spec): an update(delta) with delta < 0 invokes no callback.
C16_NegativeDeltaFiresNothing ==
    (pass.phase # "idle" /\ pass.currentTime < lastTime) => hist.firedPass = <<>>

\* C17 (Spec): an item is due at the time of the schedule call plus
\* max(period or delay, 0), and a repeating item that has just fired is due
\* one period after the time it was due before.  (Periods above 0: with a
\* period of 0 the item is due at once either way.)
C17_DueAdvancesByPeriod ==
    /\ \A d \in RawPeriods :
          LET I == setInterval(State, RawHandler, d).intervals
              T == setTimeout(State, RawHandler, d).timeouts
          IN  /\ I[IndexOf(I, currentId)].allowed = now(State) + Clamp(d)
              /\ T[IndexOf(T, currentId)].allowed = now(State) + Clamp(d)
    /\ \A f \in hist.firedNow : \A j \in 1..Len(intervals) :
          (intervals[j].seq = f.seq /\ intervals[j].interval > 0)
              => intervals[j].allowed = f.due + intervals[j].interval

\* C18 (SpecDelay): a settled deferred result never changes state again, and
\* a deferred result created by a start() after the one before it was settled
\* is fulfilled only by the one-shot item which that start() scheduled.
C18_SettledOnlyByOwnTimer ==
    /\ [][\A p \in 1..Len(promises) :
            promises[p].state # "pending" => promises'[p].state = promises[p].state]_vars
    /\ [](\A p \in 1..Len(promises) :
            (promises[p].after # "none" /\ promises[p].after # "pending"
                /\ promises[p].state = "fulfilled")
            => promises[p].by = promises[p].item)

\* The one-shot entries the registry holds in S for the Delay, and for others.
DelayTimersIn(S) == SelectSeq(S.timeouts, LAMBDA e : e.h.kind = "delay")
OtherTimersIn(S) == SelectSeq(S.timeouts, LAMBDA e : e.h.kind # "delay")

\* C19 (SpecDelay): when cancel() or reset() on the Delay returns, the
\* registry holds no entry whose callback is the Delay's, and the entries of
\* others are as they were.
C19_CancelLeavesNoEntry ==
    Idle =>
        /\ DelayTimersIn(Delay_cancel(State)) = <<>>
        /\ OtherTimersIn(Delay_cancel(State)) = OtherTimersIn(State)
        /\ Delay_cancel(State).intervals = intervals
        /\ \A d \in Periods :
              /\ DelayTimersIn(Delay_reset(State, d)) = <<>>
              /\ OtherTimersIn(Delay_reset(State, d)) = OtherTimersIn(State)
              /\ Delay_reset(State, d).intervals = intervals

\* start() has returned and no update() has ended since: the result is
\* pending, whatever the predicate returns.
PendingAfterStart ==
    \A who \in {"until", "while"} :
        (hist.started[who].t0 # -1 /\ hist.started[who].passed = 0 /\ Idle)
            => untils[who].promise = "pending"

\* C20 (SpecUntil) as claimed: start() leaves the result pending, and an
\* Until whose predicate returns true from start() on is fulfilled when the
\* first update() after start() has ended.
C20_FulfilledByFirstPass ==
    /\ PendingAfterStart
    /\ \A who \in {"until", "while"} :
          (Idle /\ hist.started[who].passed >= 1 /\ hist.started[who].stable)
              => untils[who].promise = "fulfilled"

\* C20 (SpecUntil) as amended: ... when the first update() after start() that
\* takes the clock to the time of the start() or later has ended.
C20_FulfilledByFirstPassForward ==
    /\ PendingAfterStart
    /\ \A who \in {"until", "while"} :
          (Idle /\ hist.started[who].passed = 2 /\ hist.started[who].stable)
              => untils[who].promise = "fulfilled"

\* An Until whose predicate was true at start() was pending then and is
\* fulfilled after an update() that followed.
C20_Witness ==
    /\ Idle
    /\ hist.started["until"].passed = 2
    /\ hist.started["until"].stable
    /\ hist.started["until"].t0 > 0
    /\ untils["until"].promise = "fulfilled"

\* The repeating entries of the registry that poll for this Until.
PollEntries(who) ==
    {j \in 1..Len(intervals) : intervals[j].h = PollHandler(who)}

\* C21 (SpecUntil): an Until owns one poll item from start() until the poll
\* in which its predicate returns true and none before or after, so that the
\* predicate (dropped by that poll) is not invoked again; start() on an Until
\* that is running or fulfilled changes nothing.
C21_PollRemovedOnceTrue ==
    \A who \in {"until", "while"} :
        /\ Cardinality(PollEntries(who)) =
               (IF untils[who].isStarted /\ who \notin hist.polledTrue
                THEN 1 ELSE 0)
        /\ who \in hist.polledTrue =>
               /\ untils[who].condition = "undefined"
               /\ untils[who].promise = "fulfilled"
        /\ who \notin hist.polledTrue => untils[who].condition = "set"
        /\ untils[who].isStarted =>
               ProgramOf(Until_start(State, who)) = ProgramOf(State)

\* One Until was fulfilled by a poll and updates have gone on since, with the
\* other Until still polling.
C21_Witness ==
    /\ pass.phase = "timeouts"
    /\ "until" \in hist.polledTrue
    /\ hist.firedPass # <<>>
    /\ \A k \in 1..Len(hist.firedPass) :
          \E j \in PollEntries("while") : intervals[j].seq = hist.firedPass[k].seq
    /\ PollEntries("until") = {}

\* The p-th deferred result of the Delay (one not yet created is pending).
PromiseAt(p) == IF p <= Len(promises) THEN promises[p] ELSE NewPromise

\* The deferred result p belongs to a cycle that was started and not
\* cancelled or reset.
StartedNeverCancelled(p) ==
    PromiseAt(p).due # -1 /\ p \notin hist.dlCancelProms

\* The deferred result p is fulfilled, and (unless a later cycle has begun)
\* the Delay neither runs nor holds an item.
FulfilledAndDone(p) ==
    /\ PromiseAt(p).state = "fulfilled"
    /\ p = delay.promise =>
          /\ ~delay.isStarted /\ ~hist.dlRunning
          /\ DelayEntries = {}

\* An update() pass to the due time of p or beyond is over its loops.
PassReachedDue(p) ==
    /\ pass.phase = "timeouts" /\ pass.cursor >= Len(timeouts)
    /\ pass.currentTime >= PromiseAt(p).due

\* The clock can still advance to the due time of p.
CanBecomeDue(p) == PromiseAt(p).due <= MaxTime /\ lastTime < MaxTime

C23_ScheduledInPassFiresLater ==
    /\ \A k \in 1..Len(hist.firedPass) :
          ~(hist.firedPass[k].seq >= hist.passGen /\ hist.firedPass[k].d > 0)
    /\ pass.phase # "idle" =>
          /\ \A j \in 1..Len(intervals) :
                (intervals[j].seq >= hist.passGen /\ intervals[j].interval > 0)
                    => intervals[j].allowed = pass.currentTime + intervals[j].interval
          /\ \A j \in 1..Len(timeouts) :
                (timeouts[j].seq >= hist.passGen /\ timeouts[j].delay > 0)
                    => timeouts[j].allowed = pass.currentTime + timeouts[j].delay
    /\ Idle =>
          /\ \A j \in 1..Len(intervals) : intervals[j].allowed >= lastTime
          /\ \A j \in 1..Len(timeouts) : timeouts[j].allowed >= lastTime

\* C24 (SpecDelayUsed): whatever handle setTimeout returned to the start() of
\* a running Delay, cancel() takes the item with that handle out of the
\* registry, rejects the deferred result if rejectOnCancel is set, and leaves
\* the Delay not running: it is never without effect.
C24_CancelWorksForEveryHandle ==
    (Idle /\ hist.dlRunning) =>
        LET T == Delay_cancel(State)
        IN  /\ ~Has(T.timeouts, hist.dlHandle)
            /\ delay.rejectOnCancel =>
                   T.promises[delay.promise].state = "rejected"
            /\ ~T.delay.isStarted /\ ~T.delay.isInitialized
            /\ ProgramOf(T) # ProgramOf(State)

====
